---------------------------- MODULE Spec2Model ----------------------------
(***************************************************************************)
(* A model of radio-scripts: the duration packer (Worker.collect_samples), *)
(* the section diversifier (Worker.collect_catalogs_sounds and             *)
(* Worker.choose_samples_urls), the splice planner (audio.join) and the    *)
(* scheduling of composition jobs (Worker.start, cli.entrypoint).          *)
(*                                                                         *)
(* Times are whole numbers of one unit (a second in the packer examples).  *)
(* A crossfade is an even number of units, so that crossfade / 2 is exact. *)
(***************************************************************************)
EXTENDS Integers, Sequences, FiniteSets, TLC

VARIABLES
    packArgs,   \* collect_samples' arguments: duration, urls, skips_count
    pk,         \* collect_samples' frame: its locals and what it has yielded
    joinArgs,   \* join's arguments: the inputs' durations, crossfade_duration
    sox,        \* the sox command join has run, if any
    catalog,    \* what Catalog.sounds answers for each section url
    worker,     \* the Worker's fields set by __init__
    sections,   \* Worker._sections, the deque of section urls
    gen,        \* one choose_samples_urls(collect_catalogs_sounds()) generator
    cli,        \* entrypoint's frame: args.debug and where the main thread is
    executor,   \* the ThreadPoolExecutor
    futures,    \* the state of each submitted Future, in submission order
    jobs,       \* the frame of each compose_station call
    target,     \* the target directory: its bank directories and their files
    env         \* what the network and sox may answer

packVars == <<packArgs, pk>>
joinVars == <<joinArgs, sox>>
divVars == <<catalog, worker, sections, gen>>
runVars == <<cli, executor, futures, jobs, target, env>>
vars == <<packArgs, pk, joinArgs, sox, catalog, worker, sections, gen,
          cli, executor, futures, jobs, target, env>>

---------------------------------------------------------------------------
(* Bounds of the model. *)

MaxUrls == 4        \* longest candidate stream handed to the packer
MaxSkips == 3       \* largest skip budget handed to the packer
MaxClips == 5       \* most clips handed to join
MaxSounds == 6      \* most sounds of a catalog, all sections together
MaxSections == MaxSounds \div 2    \* most sections of a catalog

---------------------------------------------------------------------------
(* Helpers. *)

RECURSIVE SumSeq(_)
SumSeq(s) == IF s = <<>> THEN 0 ELSE Head(s) + SumSeq(Tail(s))

SeqsUpTo(S, n) == UNION {[1..k -> S] : k \in 0..n}

Range(s) == {s[i] : i \in 1..Len(s)}

RECURSIVE MaxLen(_)
MaxLen(lists) ==
    IF lists = <<>> THEN 0
    ELSE LET m == MaxLen(Tail(lists))
         IN  IF Len(Head(lists)) > m THEN Len(Head(lists)) ELSE m

DigitChars == <<"0", "1", "2", "3", "4", "5", "6", "7", "8", "9">>

\* str(n), a sequence of characters
RECURSIVE Str(_)
Str(n) ==
    IF n < 10 THEN <<DigitChars[n + 1]>>
    ELSE Str(n \div 10) \o <<DigitChars[(n % 10) + 1]>>

---------------------------------------------------------------------------
(* audio.py: what the external engine and the network answer. *)

\* What downloading and measuring one candidate answers: the duration sox
\* reports, or the exception raised on the way.
Measured(file_duration) == [raises |-> "", duration |-> file_duration]

Raised(exception) == [raises |-> exception, duration |-> 0]

\* run_sox raises SoxError when sox exits non-zero
SoxError == Raised("SoxError")

\* urllib.request.urlretrieve raises (URLError, HTTPError: an OSError)
URLError == Raised("URLError")

\* run_sox, lines 29-31 and 39-40: without a sox executable every call raises
\* SoxNotFoundError; else it raises what sox's exit makes it raise, if anything
RunSox(installed, raises) == IF ~installed THEN "SoxNotFoundError" ELSE raises

\* urlretrieve, then measure_durations, of one candidate (worker.py 123-127)
Fetched(installed, outcome) ==
    IF outcome = URLError \/ RunSox(installed, outcome.raises) = outcome.raises
    THEN outcome
    ELSE Raised(RunSox(installed, outcome.raises))

---------------------------------------------------------------------------
(* Worker.collect_samples, worker.py 114-141. *)

\* line 132, negated: the candidate fits the remaining length
FitsLate(remaining, file_duration) == ~(remaining <= 0)

FitsExact(remaining, file_duration) == ~(remaining - file_duration < 0)

Fits(remaining, file_duration) == ~(remaining - file_duration <= 0)

\* lines 134-136: the generator ends when the skips are spent
SkipsSpentNever(skips_count) == FALSE

SkipsSpent(skips_count) == skips_count <= 0

\* line 128: the exceptions of the measurement that are caught
CaughtNone(exception) == FALSE

Caught(exception) == exception = "SoxError"

\* line 118 and the generator's creation: nothing runs before the first next()
CollectSamplesFrame(duration, skips_count) ==
    [remaining |-> duration,
     skips_count |-> skips_count,
     yielded |-> <<>>,      \* the file paths yielded so far, in order
     log |-> <<>>,          \* one entry per url pulled from urls (lines 119-141)
     state |-> "suspended"] \* suspended | finished (StopIteration) | raised

\* One iteration of the loop of line 119 for the candidate `url`, whose download
\* and measurement answer `outcome`: URLError (line 123 raises, nothing catches
\* it), SoxError (lines 128-130), another exception of run_sox (not caught) or
\* the duration sox reports (line 127).
CollectSamplesStep(f, url, outcome) ==
    LET entry(verdict) == [url |-> url, outcome |-> outcome,
                           remaining |-> f.remaining, verdict |-> verdict]
    IN  IF outcome.raises # "" /\ ~Caught(outcome.raises)
        THEN [f EXCEPT !.log = Append(@, entry("raised")), !.state = "raised"]
        ELSE IF outcome.raises # ""
        THEN [f EXCEPT !.log = Append(@, entry("discarded"))]
        ELSE IF ~Fits(f.remaining, outcome.duration)
        THEN [f EXCEPT !.skips_count = @ - 1,
                       !.log = Append(@, entry("too long")),
                       !.state = IF SkipsSpent(f.skips_count - 1)
                                 THEN "finished" ELSE @]
        ELSE [f EXCEPT !.remaining = @ - outcome.duration,
                       !.yielded = Append(@, url),
                       !.log = Append(@, entry("yielded"))]

\* line 119: urls is exhausted, the loop and the generator end
CollectSamplesEnd(f) == [f EXCEPT !.state = "finished"]

PackIdle ==
    /\ packArgs = [duration |-> 0, urls |-> <<>>, skips_count |-> 0]
    /\ pk = CollectSamplesFrame(0, 0)

---------------------------------------------------------------------------
(* audio.join, audio.py 71-88. *)

\* no sox command has been run
NotRun == [ran |-> FALSE, inputs |-> 0, splice |-> <<>>]

\* line 76
Excess(crossfade_duration) == crossfade_duration \div 2

\* line 79, the right-hand side, for Python's index (positions count from 0
\* there and from 1 here)
SpliceAtFlat(splices, index, excess) ==
    splices[index] + splices[index + 1] - excess

SpliceAt(splices, index, excess) ==
    splices[index] + splices[index + 1] - excess * index

\* lines 78-79: for index in range(1, len(splices))
RECURSIVE SpliceLoop(_, _, _)
SpliceLoop(splices, index, excess) ==
    IF index >= Len(splices)
    THEN splices
    ELSE SpliceLoop([splices EXCEPT ![index + 1] = SpliceAt(splices, index, excess)],
                    index + 1, excess)

\* lines 77-79: the durations of all inputs but the last, then the loop
SplicePositions(durations, crossfade_duration) ==
    SpliceLoop(SubSeq(durations, 1, Len(durations) - 1), 1,
               Excess(crossfade_duration))

\* lines 73-87: nothing is run for no inputs; else one sox command with a
\* "position,excess" argument per splice
Join(durations, crossfade_duration) ==
    IF durations = <<>>
    THEN NotRun
    ELSE LET splices == SplicePositions(durations, crossfade_duration)
         IN  [ran |-> TRUE,
              inputs |-> Len(durations),
              splice |-> [i \in 1..Len(splices) |->
                             [position |-> splices[i],
                              excess |-> Excess(crossfade_duration)]]]

JoinIdle ==
    /\ joinArgs = [durations |-> <<>>, crossfade_duration |-> 0, called |-> FALSE]
    /\ sox = NotRun

---------------------------------------------------------------------------
(* Worker.collect_catalogs_sounds and Worker.choose_samples_urls,            *)
(* worker.py 100-112. A sound url is <<section, number>>.                    *)

\* zip_longest's fill value for a list that has run out
None == <<>>

\* random.sample(x, len(x)): any reordering of x
Shuffles(x) ==
    {[i \in 1..Len(x) |-> x[p[i]]] : p \in Permutations(1..Len(x))}

\* line 112, filter(None, ...): the fill values are dropped
FilterNoneKeep(urls) == urls

FilterNone(urls) == SelectSeq(urls, LAMBDA u : u # None)

\* line 111: the tuple zip_longest gives in round `round` (counted from 1)
ZipShortest(lists, round) ==
    [k \in 1..Len(lists) |-> lists[k][round]]

ZipChained(lists, round) ==
    IF round <= Len(lists) THEN lists[round] ELSE <<>>

ZipLongest(lists, round) ==
    [k \in 1..Len(lists) |->
        IF round <= Len(lists[k]) THEN lists[k][round] ELSE None]

\* line 111: zip_longest gives one tuple per position of the longest list
Rounds(lists) == MaxLen(lists)

\* line 104, deque.popleft(): the leftmost section leaves the deque, in one
\* step no other thread can split
PopLeftKeep(deque) == deque

PopLeft(deque) == Tail(deque)

\* the generators' creation (line 80): nothing runs before the first next()
GenFrame ==
    [popped |-> <<>>,        \* the section urls popped (line 104), in order
     lists |-> <<>>,         \* the lists collect_catalogs_sounds has yielded
     collecting |-> TRUE,    \* collect_catalogs_sounds has not ended yet
     round |-> 0,            \* the tuples taken from zip_longest
     pending |-> <<>>,       \* the rest of the round being yielded (line 112)
     yielded |-> <<>>,       \* the urls yielded so far, in order
     state |-> "suspended"]  \* suspended | finished (StopIteration) | raised

\* lines 103-105: one iteration with a section left: it is popped, its sounds
\* are fetched and yielded in the order `shuffled`; the loop ends after
\* `diversity` iterations
CollectCatalogsSoundsStep(g, section, shuffled, diversity) ==
    [g EXCEPT !.popped = Append(@, section),
              !.lists = Append(@, shuffled),
              !.collecting = Len(g.popped) + 1 < diversity]

\* line 104: the section is popped, then Catalog.sounds raises; suppress lets
\* through all but IndexError, the generator is over
CollectCatalogsSoundsRaise(g, section) ==
    [g EXCEPT !.popped = Append(@, section),
              !.collecting = FALSE,
              !.state = "raised"]

\* lines 102, 104: popleft raises IndexError on an empty deque, suppress ends
\* the generator quietly
CollectCatalogsSoundsEnd(g) == [g EXCEPT !.collecting = FALSE]

\* line 111: choose_samples_urls can yield once every list is there
CanChoose(g) == g.state = "suspended" /\ ~g.collecting

\* line 112: the next url of the round being yielded
ChooseYield(g) ==
    [g EXCEPT !.pending = Tail(@), !.yielded = Append(@, Head(g.pending))]

\* lines 111-112: the next tuple of zip_longest, reordered as `order`
ChooseRound(g, order) ==
    [g EXCEPT !.round = @ + 1, !.pending = FilterNone(order)]

\* line 111: zip_longest is exhausted, the generator ends
ChooseEnd(g) == [g EXCEPT !.state = "finished"]

\* Worker.sounds of a section, as the catalog answers
Sounds(section) == catalog[section]

DivIdle ==
    /\ catalog = <<>>
    /\ worker = [diversity |-> 0]
    /\ sections = <<>>
    /\ gen = GenFrame

---------------------------------------------------------------------------
(* Worker.compose_station, make_radio_program and Worker.copy_file_safely:   *)
(* one composition job.                                                      *)

DefaultDiversity == 5     \* Worker.__init__, diversity
DefaultSkips == 5         \* Worker.collect_samples, skips_count
CrossfadeDuration == 2    \* make_radio_program, crossfade_duration

\* lines 80-83: the generators are created, none has run yet
JobFrame(minutes) ==
    [pc |-> "idle",
     gen |-> GenFrame,
     pk |-> CollectSamplesFrame(minutes * 60, DefaultSkips),
     tmpdir |-> <<>>,       \* the job's tmpdir: what each file name holds
     staging |-> <<>>,      \* make_radio_program's staging_paths
     program |-> FALSE,     \* whether program_path exists in the job's tmpdir
     dst |-> <<>>,          \* copy_file_safely's dst
     exc |-> ""]            \* the exception that ended the job, if any

\* worker.py 120, Path(url).name: the last component of the url; the sound
\* <<section, k>> is the k-th file of its section's page
Name(url) == Str(url[2])

\* worker.py 123: urlretrieve writes the file, over what it held if it exists;
\* nothing is written when the download raises
Retrieved(tmpdir, url, outcome) ==
    IF outcome = URLError THEN tmpdir ELSE (Name(url) :> url) @@ tmpdir

\* audio.py 104-106: f'{index}_{input_path.name}' with the suffix .wav
StagingPathNoIndex(index, name) == name \o <<".wav">>

StagingPath(index, name) == Str(index) \o <<"_">> \o name \o <<".wav">>

\* the job raises: nothing in compose_station catches
JobRaise(j, exception) == [j EXCEPT !.pc = "failed", !.exc = exception]

\* line 119 of worker.py: the generator states after the next url is pulled
\* from choose_samples_urls; the url is the last of `yielded`
PullUrl(g) ==
    IF g.pending # <<>>
    THEN {ChooseYield(g)}
    ELSE {ChooseYield(ChooseRound(g, order)) :
             order \in Shuffles(ZipLongest(g.lists, g.round + 1))}

\* lines 119-141 for the url just pulled, answered `outcome`; then back in
\* make_radio_program's loop (audio.py 103): the yielded path is converted
\* next, or the loop is over
JobCollected(j, g, outcome) ==
    LET url == g.yielded[Len(g.yielded)]
        f == CollectSamplesStep(j.pk, url, outcome)
        verdict == f.log[Len(f.log)].verdict
    IN  [j EXCEPT !.gen = IF f.state = "raised"
                          THEN [g EXCEPT !.state = "raised"] ELSE g,
                  !.pk = f,
                  !.tmpdir = Retrieved(@, url, outcome),
                  !.exc = IF f.state = "raised" THEN outcome.raises ELSE @,
                  !.pc = IF f.state = "raised" THEN "failed"
                         ELSE IF verdict = "yielded" THEN "convert"
                         ELSE IF f.state = "finished" THEN "join"
                         ELSE "collect"]

\* line 119: choose_samples_urls is exhausted, so is collect_samples
JobCollectedAll(j) ==
    [j EXCEPT !.gen = ChooseEnd(j.gen),
              !.pk = CollectSamplesEnd(j.pk),
              !.pc = "join"]

\* audio.py 104-108: the sample just yielded is converted into its staging
\* file, whose duration sox will report as outcome.duration; a SoxError of
\* convert is not caught
JobConverted(j, outcome) ==
    IF outcome.raises # ""
    THEN JobRaise(j, outcome.raises)
    ELSE LET index == Len(j.staging) + 1
             input == Name(j.pk.yielded[Len(j.pk.yielded)])
         IN  [j EXCEPT !.staging =
                      Append(@, [index |-> index,
                                 path |-> StagingPath(index, input),
                                 input |-> j.tmpdir[input],
                                 duration |-> outcome.duration]),
                   !.pc = "collect"]

StagingDurations(j) == [i \in 1..Len(j.staging) |-> j.staging[i].duration]

\* audio.py 109 and join: no inputs, no sox and no program file; else sox
\* writes the program file or fails
JobJoined(j, answer) ==
    LET cmd == Join(StagingDurations(j), CrossfadeDuration)
    IN  IF ~cmd.ran
        THEN [j EXCEPT !.pc = "store"]
        ELSE IF answer # ""
        THEN JobRaise(j, answer)
        ELSE [j EXCEPT !.program = TRUE, !.pc = "store"]

\* a file of the target: <<directory, stem, suffix>>, which is
\* f'{bank:02}/{file:02}.wav' for num = 0, the src.name of worker.py 86-91,
\* and f'{bank:02}/{file:02}-{num}.wav' otherwise
\* f'{n:02}'
Pad02(n) == IF n < 10 THEN <<"0">> \o Str(n) ELSE Str(n)

\* worker.py 154: the stem of the num-th name tried
StemOfAny(file, num) ==
    IF num = 0 THEN Pad02(0) ELSE Pad02(0) \o <<"-">> \o Str(num)

Stem(file, num) ==
    IF num = 0 THEN Pad02(file) ELSE Pad02(file) \o <<"-">> \o Str(num)

Path(bank, file, num) == <<Pad02(bank), Stem(file, num), ".wav">>

\* shutil.copyfile (worker.py 155) creates dst or replaces its content
CopyFile(files, dst, content) == (dst :> content) @@ files

\* worker.py 149-154: the first of name, name-1, name-2, ... that does not exist
FirstFreeBase(files, bank, file) == Path(bank, file, 0)

FirstFree(files, bank, file) ==
    LET free(n) == Path(bank, file, n) \notin DOMAIN files
        num == CHOOSE n \in 0..Cardinality(DOMAIN files) :
                   free(n) /\ \A k \in 0..(n - 1) : ~free(k)
    IN  Path(bank, file, num)

\* worker.py 148-154: the directory is made, the free name is found
JobPicked(j, files, bank, file) ==
    [j EXCEPT !.dst = FirstFree(files, bank, file), !.pc = "copy"]

\* worker.py 155: shutil.copyfile raises FileNotFoundError without a source
CanCopyAlways(j) == TRUE

CanCopy(j) == j.program

---------------------------------------------------------------------------
(* A run: cli.entrypoint, Worker.start and the jobs on the executor. *)

MaxCells == 3       \* largest banks * files grid of a run

\* the catalog whose section sec has sizes[sec] sounds
CatalogOf(sizes) ==
    [sec \in 1..Len(sizes) |-> [k \in 1..sizes[sec] |-> <<sec, k>>]]

RunShapes == {<<>>, <<2>>, <<1, 1>>}
PoolSizes == {1, 2}
RunDurations == {20, 60}
StagedDurations == {10}

\* every answer: downloads fail, sox fails on a file, on a conversion, on join
AnyAnswer ==
    [which : BOOLEAN,
     sounds : {{"", "URLError"}},
     fetch : {{Measured(d) : d \in RunDurations} \cup {SoxError, URLError}},
     convert : {{Measured(d) : d \in StagedDurations} \cup {SoxError}},
     splice : {{"", "SoxError"}}]

Cells == 1 .. worker.banks * worker.files

\* worker.py 66-68: the k-th job submitted is for this bank and file
Bank(k) == (k - 1) \div worker.files
File(k) == (k - 1) % worker.files

RunningNone == {}

\* the jobs a worker thread is executing
Running == {k \in Cells : futures[k] = "running"}

MainIdle ==
    /\ cli = [debug |-> FALSE, pc |-> "idle", exc |-> ""]
    /\ executor = [max_workers |-> 0, shutdown |-> FALSE]
    /\ futures = <<>>
    /\ jobs = <<>>
    /\ env = [which |-> TRUE, sounds |-> {}, fetch |-> {}, convert |-> {},
              splice |-> {}]

RunIdle == MainIdle /\ target = [dirs |-> {}, files |-> <<>>]

\* cli.py 146-153: the Worker and the executor are constructed
InitRun(grids, shapes, answers, targets) ==
    /\ PackIdle
    /\ JoinIdle
    /\ gen = GenFrame
    /\ catalog \in {CatalogOf(sizes) : sizes \in shapes}
    /\ worker \in {w \in [banks : 1..MaxCells, files : 1..MaxCells,
                          minutes : {1}, diversity : {DefaultDiversity}] :
                      <<w.banks, w.files>> \in grids}
    /\ sections = <<>>
    /\ cli \in [debug : BOOLEAN, pc : {"start"}, exc : {""}]
    /\ executor \in [max_workers : PoolSizes, shutdown : {FALSE}]
    /\ futures = [k \in Cells |-> "unsubmitted"]
    /\ jobs = [k \in Cells |-> JobFrame(worker.minutes)]
    /\ target \in targets
    /\ env \in answers

\* banks and files: one or two banks, up to MaxCells cells
Grids == {g \in (1..2) \X (1..MaxCells) : g[1] * g[2] <= MaxCells}

\* a target directory without bank directories
EmptyTarget == [dirs |-> {}, files |-> <<>>]

Init == InitRun(Grids, RunShapes, AnyAnswer, {EmptyTarget})

\* the job k ends: its Future is done, with a result or with the exception
Settle(k, j) ==
    /\ jobs' = [jobs EXCEPT ![k] = j]
    /\ futures' = [futures EXCEPT ![k] = IF j.pc = "failed" THEN "failed"
                                         ELSE IF j.pc = "done" THEN "finished"
                                         ELSE @]

\* worker.py 98, deque.extend
ExtendNothing(deque, iterable) == deque

Extend(deque, iterable) == deque \o iterable

\* worker.py 63 and 95-98, on the first next() of Worker.start
MainEnqueue ==
    /\ cli.pc = "start"
    /\ \E order \in Shuffles([i \in 1..Len(catalog) |-> i]) :
          sections' = Extend(sections, order)
    /\ cli' = [cli EXCEPT !.pc = "submit"]
    /\ UNCHANGED <<catalog, worker, gen, executor, futures, jobs, target, env,
                   packVars, joinVars>>

\* worker.py 66-68: executor.submit of the next cell; after the last one the
\* main thread waits (cli.py 157 or 161)
MainSubmit ==
    /\ cli.pc = "submit"
    /\ LET k == Cardinality({i \in Cells : futures[i] # "unsubmitted"}) + 1
       IN  /\ futures' = [futures EXCEPT ![k] = "pending"]
           /\ cli' = [cli EXCEPT !.pc = IF k = worker.banks * worker.files
                                        THEN "wait" ELSE "submit"]
    /\ UNCHANGED <<catalog, worker, sections, gen, executor, jobs, target, env,
                   packVars, joinVars>>

\* cli.py 78-80 (wait_progress) and 157-159 (debug): a Future that is done
\* with an exception makes the main thread raise it
MainDetect ==
    /\ cli.pc = "wait"
    /\ \E k \in Cells :
          /\ futures[k] = "failed"
          /\ cli' = [cli EXCEPT !.pc = "raised", !.exc = jobs[k].exc]
    /\ UNCHANGED <<catalog, worker, sections, gen, executor, futures, jobs,
                   target, env, packVars, joinVars>>

\* cli.py 162-163: shutdown(cancel_futures=True) cancels every job that has
\* not started
ShutdownKeepPending(fs) == fs

Shutdown(fs) ==
    [k \in DOMAIN fs |-> IF fs[k] = "pending" THEN "cancelled" ELSE fs[k]]

MainShutdown ==
    /\ cli.pc = "raised"
    /\ executor' = [executor EXCEPT !.shutdown = TRUE]
    /\ futures' = Shutdown(futures)
    /\ cli' = [cli EXCEPT !.pc = "joining"]
    /\ UNCHANGED <<catalog, worker, sections, gen, jobs, target, env,
                   packVars, joinVars>>

\* cli.py 163-164: shutdown(wait=True) returns once the running jobs have
\* ended, then the exception is raised again
MainTerminate ==
    /\ cli.pc = "joining"
    /\ Running = {}
    /\ cli' = [cli EXCEPT !.pc = "terminated"]
    /\ UNCHANGED <<catalog, worker, sections, gen, executor, futures, jobs,
                   target, env, packVars, joinVars>>

\* cli.py 74-101 and 157-159: every Future is done without an exception
MainCompleted ==
    /\ cli.pc = "wait"
    /\ \A k \in Cells : futures[k] = "finished"
    /\ cli' = [cli EXCEPT !.pc = "completed"]
    /\ UNCHANGED <<catalog, worker, sections, gen, executor, futures, jobs,
                   target, env, packVars, joinVars>>

\* ThreadPoolExecutor: a worker thread takes the oldest pending job when
\* fewer than max_workers jobs run; compose_station runs up to the first
\* next() on its generators (worker.py 73-87)
JobStart(k) ==
    /\ futures[k] = "pending"
    /\ \A i \in Cells : i < k => futures[i] # "pending"
    /\ Cardinality(Running) < executor.max_workers
    /\ futures' = [futures EXCEPT ![k] = "running"]
    /\ jobs' = [jobs EXCEPT ![k].pc = "collect"]
    /\ UNCHANGED <<catalog, worker, sections, gen, cli, executor, target, env,
                   packVars, joinVars>>

\* worker.py 103-105, a section is left
JobPop(k) ==
    /\ futures[k] = "running" /\ jobs[k].pc = "collect"
    /\ jobs[k].gen.collecting
    /\ sections # <<>>
    /\ \E answer \in env.sounds :
          IF answer # ""
          THEN Settle(k, JobRaise([jobs[k] EXCEPT !.gen =
                              CollectCatalogsSoundsRaise(@, Head(sections))],
                          answer))
          ELSE /\ \E shuffled \in Shuffles(Sounds(Head(sections))) :
                     jobs' = [jobs EXCEPT ![k].gen =
                                 CollectCatalogsSoundsStep(@, Head(sections),
                                                 shuffled, worker.diversity)]
               /\ UNCHANGED futures
    /\ sections' = PopLeft(sections)
    /\ UNCHANGED <<catalog, worker, gen, cli, executor, target, env,
                   packVars, joinVars>>

\* worker.py 102-104, no section is left
JobPopEmpty(k) ==
    /\ futures[k] = "running" /\ jobs[k].pc = "collect"
    /\ jobs[k].gen.collecting
    /\ sections = <<>>
    /\ jobs' = [jobs EXCEPT ![k].gen = CollectCatalogsSoundsEnd(@)]
    /\ UNCHANGED <<catalog, worker, sections, gen, cli, executor, futures,
                   target, env, packVars, joinVars>>

\* worker.py 119-141: one candidate is pulled, downloaded, measured, judged
JobCollect(k) ==
    /\ futures[k] = "running" /\ jobs[k].pc = "collect"
    /\ CanChoose(jobs[k].gen)
    /\ jobs[k].gen.pending # <<>> \/ jobs[k].gen.round < Rounds(jobs[k].gen.lists)
    /\ \E g \in PullUrl(jobs[k].gen), outcome \in env.fetch :
          Settle(k, JobCollected(jobs[k], g, Fetched(env.which, outcome)))
    /\ UNCHANGED <<catalog, worker, sections, gen, cli, executor, target, env,
                   packVars, joinVars>>

\* worker.py 119: no candidate is left
JobCollectEnd(k) ==
    /\ futures[k] = "running" /\ jobs[k].pc = "collect"
    /\ CanChoose(jobs[k].gen)
    /\ jobs[k].gen.pending = <<>>
    /\ jobs[k].gen.round = Rounds(jobs[k].gen.lists)
    /\ Settle(k, JobCollectedAll(jobs[k]))
    /\ UNCHANGED <<catalog, worker, sections, gen, cli, executor, target, env,
                   packVars, joinVars>>

\* audio.py 104-108
JobConvert(k) ==
    /\ futures[k] = "running" /\ jobs[k].pc = "convert"
    /\ \E outcome \in env.convert :
          Settle(k, JobConverted(jobs[k],
                                 [outcome EXCEPT !.raises = RunSox(env.which, @)]))
    /\ UNCHANGED <<catalog, worker, sections, gen, cli, executor, target, env,
                   packVars, joinVars>>

\* audio.py 109, 71-88
JobJoin(k) ==
    /\ futures[k] = "running" /\ jobs[k].pc = "join"
    /\ \E answer \in env.splice :
          Settle(k, JobJoined(jobs[k], RunSox(env.which, answer)))
    /\ UNCHANGED <<catalog, worker, sections, gen, cli, executor, target, env,
                   packVars, joinVars>>

\* worker.py 90-92, 148-154
JobStorePick(k) ==
    /\ futures[k] = "running" /\ jobs[k].pc = "store"
    /\ Settle(k, JobPicked(jobs[k], target.files, Bank(k), File(k)))
    /\ target' = [target EXCEPT !.dirs = @ \cup {Pad02(Bank(k))}]
    /\ UNCHANGED <<catalog, worker, sections, gen, cli, executor, env,
                   packVars, joinVars>>

\* worker.py 155-156, 93: the program is copied and the job returns, or
\* copyfile raises
JobStoreCopy(k) ==
    /\ futures[k] = "running" /\ jobs[k].pc = "copy"
    /\ IF CanCopy(jobs[k])
       THEN /\ target' = [target EXCEPT !.files =
                             CopyFile(@, jobs[k].dst,
                                      [by |-> k, clips |-> jobs[k].staging])]
            /\ Settle(k, [jobs[k] EXCEPT !.pc = "done"])
       ELSE /\ Settle(k, JobRaise(jobs[k], "FileNotFoundError"))
            /\ UNCHANGED target
    /\ UNCHANGED <<catalog, worker, sections, gen, cli, executor, env,
                   packVars, joinVars>>

Next ==
    \/ MainEnqueue \/ MainSubmit \/ MainDetect \/ MainShutdown
    \/ MainTerminate \/ MainCompleted
    \/ \E k \in Cells : JobStart(k)
    \/ \E k \in Cells : JobPop(k)
    \/ \E k \in Cells : JobPopEmpty(k)
    \/ \E k \in Cells : JobCollect(k)
    \/ \E k \in Cells : JobCollectEnd(k)
    \/ \E k \in Cells : JobConvert(k)
    \/ \E k \in Cells : JobJoin(k)
    \/ \E k \in Cells : JobStorePick(k)
    \/ \E k \in Cells : JobStoreCopy(k)

Spec == Init /\ [][Next]_vars

---------------------------------------------------------------------------
(* The small grid: banks=2, files=1, minutes=1, two sections of GridSounds   *)
(* sounds that all fit, downloads and sox that never fail.                   *)

GridSounds == 2     \* sounds of each of the two sections

GridDurations == {7}

WorkingAnswer ==
    [which : {TRUE},
     sounds : {{""}},
     fetch : {{Measured(d) : d \in GridDurations}},
     convert : {{Measured(d) : d \in GridDurations}},
     splice : {{""}}]

InitGrid ==
    InitRun({<<2, 1>>}, {<<GridSounds, GridSounds>>}, WorkingAnswer,
            {EmptyTarget})

SpecGrid == InitGrid /\ [][Next]_vars

---------------------------------------------------------------------------
(* Worker.copy_file_safely alone: stores of files 00.wav and 01.wav into the *)
(* directory 00 of a target that holds any of their names already; `jobs`    *)
(* is the list of the calls made: the file stored and the path returned.     *)

MaxStored == 3      \* names of each file the target may hold at first
MaxStores == 3      \* most calls of copy_file_safely

StoreFiles == {0, 1}

\* a file that was in the target before the run: no job has stored it
Existing == [by |-> 0, clips |-> <<>>]

\* the target that holds the files `names`, and their directories
Present(names) ==
    [dirs |-> {path[1] : path \in names},
     files |-> [path \in names |-> Existing]]

StoreNames == {Path(0, file, num) : file \in StoreFiles, num \in 0..(MaxStored - 1)}

InitStore ==
    /\ PackIdle
    /\ JoinIdle
    /\ DivIdle
    /\ MainIdle
    /\ target \in {Present(names) : names \in SUBSET StoreNames}

\* worker.py 143-156, of a src that exists
StoreCall ==
    /\ Len(jobs) < MaxStores
    /\ \E file \in StoreFiles :
          LET dst == FirstFree(target.files, 0, file)
          IN  /\ target' = [dirs |-> target.dirs \cup {Pad02(0)},
                            files |-> CopyFile(target.files, dst,
                                               [by |-> Len(jobs) + 1,
                                                clips |-> <<>>])]
              /\ jobs' = Append(jobs, [file |-> file, dst |-> dst])
    /\ UNCHANGED <<cli, executor, futures, env, packVars, joinVars, divVars>>

NextStore == StoreCall

SpecStore == InitStore /\ [][NextStore]_vars

---------------------------------------------------------------------------
(* A run into a target that is not empty: two cells, in one bank or in two,  *)
(* two sections of one sound, and any of the first names of the files of     *)
(* bank 00 there already.                                                    *)

MaxPresent == 2     \* names of each file of bank 00 the target may hold at first

TargetNames ==
    {Path(0, file, num) : file \in {0, 1}, num \in 0..(MaxPresent - 1)}

InitTarget ==
    InitRun({<<1, 2>>, <<2, 1>>}, {<<1, 1>>}, WorkingAnswer,
            {Present(names) : names \in SUBSET TargetNames})

SpecTarget == InitTarget /\ [][Next]_vars

---------------------------------------------------------------------------
(* The packer alone: collect_samples over every candidate stream. *)

Durations == {10, 15, 20, 30}
Targets == {0, 30, 40}
Outcomes == {Measured(d) : d \in Durations} \cup {SoxError, URLError}

\* a candidate is its position in urls; its outcome is packArgs.urls[position]
InitPack ==
    /\ JoinIdle
    /\ DivIdle
    /\ RunIdle
    /\ packArgs \in [duration : Targets,
                     urls : SeqsUpTo(Outcomes, MaxUrls),
                     skips_count : 0..MaxSkips]
    /\ pk = CollectSamplesFrame(packArgs.duration, packArgs.skips_count)

PackPulled == Len(pk.log)

PackNext ==
    /\ pk.state = "suspended"
    /\ PackPulled < Len(packArgs.urls)
    /\ pk' = CollectSamplesStep(pk, PackPulled + 1, packArgs.urls[PackPulled + 1])
    /\ UNCHANGED <<packArgs, joinVars, divVars, runVars>>

PackEnd ==
    /\ pk.state = "suspended"
    /\ PackPulled = Len(packArgs.urls)
    /\ pk' = CollectSamplesEnd(pk)
    /\ UNCHANGED <<packArgs, joinVars, divVars, runVars>>

NextPack == PackNext \/ PackEnd

SpecPack == InitPack /\ [][NextPack]_vars

---------------------------------------------------------------------------
(* join alone: over every list of clip durations and every crossfade. *)

ClipDurations == {1, 2, 3, 5}
Crossfades == {0, 2, 4}

InitJoin ==
    /\ PackIdle
    /\ DivIdle
    /\ RunIdle
    /\ joinArgs \in [durations : SeqsUpTo(ClipDurations, MaxClips),
                     crossfade_duration : Crossfades,
                     called : {FALSE}]
    /\ sox = NotRun

JoinCall ==
    /\ ~joinArgs.called
    /\ sox' = Join(joinArgs.durations, joinArgs.crossfade_duration)
    /\ joinArgs' = [joinArgs EXCEPT !.called = TRUE]
    /\ UNCHANGED <<packVars, divVars, runVars>>

NextJoin == JoinCall

SpecJoin == InitJoin /\ [][NextJoin]_vars

---------------------------------------------------------------------------
(* The diversifier alone: one generator over every catalog. *)

\* the catalogs of n sections: every way to give each section some sounds
Catalogs(n) ==
    {[sec \in 1..n |-> [k \in 1..size[sec] |-> <<sec, k>>]] :
        size \in {sz \in [1..n -> 0..MaxSounds] :
                     SumSeq(sz) <= MaxSounds}}

InitDiv ==
    /\ PackIdle
    /\ JoinIdle
    /\ RunIdle
    /\ catalog \in UNION {Catalogs(n) : n \in 0..MaxSections}
    /\ worker \in [diversity : {MaxSections - 1, MaxSections}]
    /\ sections = [i \in 1..Len(catalog) |-> i]
    /\ gen = GenFrame

\* lines 103-105, a section is left
DivPop ==
    /\ gen.state = "suspended" /\ gen.collecting
    /\ sections # <<>>
    /\ \E shuffled \in Shuffles(Sounds(Head(sections))) :
          gen' = CollectCatalogsSoundsStep(gen, Head(sections), shuffled,
                                           worker.diversity)
    /\ sections' = PopLeft(sections)
    /\ UNCHANGED <<catalog, worker, packVars, joinVars, runVars>>

\* lines 102-104, no section is left
DivPopEmpty ==
    /\ gen.state = "suspended" /\ gen.collecting
    /\ sections = <<>>
    /\ gen' = CollectCatalogsSoundsEnd(gen)
    /\ UNCHANGED <<catalog, worker, sections, packVars, joinVars, runVars>>

\* line 111, a new round
DivRound ==
    /\ CanChoose(gen)
    /\ gen.pending = <<>>
    /\ gen.round < Rounds(gen.lists)
    /\ \E order \in Shuffles(ZipLongest(gen.lists, gen.round + 1)) :
          gen' = ChooseRound(gen, order)
    /\ UNCHANGED <<catalog, worker, sections, packVars, joinVars, runVars>>

\* line 112
DivYield ==
    /\ CanChoose(gen)
    /\ gen.pending # <<>>
    /\ gen' = ChooseYield(gen)
    /\ UNCHANGED <<catalog, worker, sections, packVars, joinVars, runVars>>

\* line 111, zip_longest is exhausted
DivEnd ==
    /\ CanChoose(gen)
    /\ gen.pending = <<>>
    /\ gen.round = Rounds(gen.lists)
    /\ gen' = ChooseEnd(gen)
    /\ UNCHANGED <<catalog, worker, sections, packVars, joinVars, runVars>>

NextDiv == DivPop \/ DivPopEmpty \/ DivRound \/ DivYield \/ DivEnd

SpecDiv == InitDiv /\ [][NextDiv]_vars

---------------------------------------------------------------------------
(* Properties of the packer. *)

YieldedDurations ==
    [i \in 1..Len(pk.yielded) |-> packArgs.urls[pk.yielded[i]].duration]

\* the log entries of measured candidates that did not fit
TooLong == {i \in 1..Len(pk.log) : pk.log[i].verdict = "too long"}

\* the log entries of candidates as long as the length that remained
ExactFits ==
    {i \in 1..Len(pk.log) :
        /\ pk.log[i].outcome.raises = ""
        /\ pk.log[i].outcome.duration = pk.log[i].remaining}

BoundaryExample ==
    /\ packArgs.urls = <<Measured(10), Measured(20), Measured(15)>>
    /\ packArgs.duration = 30
    /\ pk.state = "finished"

\* C1: at every point of collect_samples, whatever the target, the candidates
\* and the skip budget, the durations of the samples yielded so far add up to
\* no more than the target duration.
C1_NoOvershoot == SumSeq(YieldedDurations) <= packArgs.duration

\* C1's case: samples were yielded and a later one was turned down as too long.
C1_Witness ==
    /\ Len(pk.yielded) >= 2
    /\ TooLong # {}
    /\ pk.state = "finished"

\* C2 as claimed: a candidate exactly as long as the remaining length is
\* yielded; [10, 20, 15] with target 30 yields [10, 20] and leaves 0.
C2_ExactFitAccepted ==
    /\ \A i \in ExactFits : pk.log[i].verdict = "yielded"
    /\ BoundaryExample =>
          /\ YieldedDurations = <<10, 20>>
          /\ pk.remaining = 0

\* C2 amended: a candidate exactly as long as the remaining length does not
\* fit (it is counted as too long and costs a skip); [10, 20, 15] with target
\* 30 and a skip budget of at least 2 yields [10, 15] and leaves 5.
C2_ExactFitRejected ==
    /\ \A i \in ExactFits : pk.log[i].verdict = "too long"
    /\ BoundaryExample /\ packArgs.skips_count >= 2 =>
          /\ YieldedDurations = <<10, 15>>
          /\ pk.remaining = 5

\* C2's case: the example has run to its end with skips to spare.
C2_Witness ==
    /\ BoundaryExample
    /\ packArgs.skips_count >= 2
    /\ ExactFits = {2}

\* C3: with a skip budget k >= 1 every measured candidate that does not fit
\* takes one skip, the packer stops at the k-th of them and not before, and
\* nothing is pulled or downloaded after it: at most k candidates that do not
\* fit are downloaded.
C3_BoundedSkips ==
    packArgs.skips_count >= 1 =>
        /\ pk.skips_count = packArgs.skips_count - Cardinality(TooLong)
        /\ Cardinality(TooLong) <= packArgs.skips_count
        /\ Cardinality(TooLong) = packArgs.skips_count =>
              /\ pk.state = "finished"
              /\ pk.log[Len(pk.log)].verdict = "too long"
        /\ Cardinality(TooLong) < packArgs.skips_count /\ pk.state = "finished" =>
              Len(pk.log) = Len(packArgs.urls)

\* C3's case: the second of two skips stopped the packer with candidates left
\* in the stream that were never pulled.
C3_Witness ==
    /\ packArgs.skips_count = 2
    /\ Cardinality(TooLong) = 2
    /\ pk.state = "finished"
    /\ Len(pk.log) < Len(packArgs.urls)

---------------------------------------------------------------------------
(* Properties of join. *)

\* boundary[i] of the unspliced concatenation, i counted from 0: d[0]+...+d[i]
Boundary(i) == SumSeq(SubSeq(joinArgs.durations, 1, i + 1))

\* splice[i], i counted from 0
Splice(i) == sox.splice[i + 1].position

SpliceIndexes == 0 .. Len(joinArgs.durations) - 2

MinDuration ==
    CHOOSE d \in {joinArgs.durations[k] : k \in 1..Len(joinArgs.durations)} :
        \A k \in 1..Len(joinArgs.durations) : d <= joinArgs.durations[k]

C5_WellOrdered ==
    sox.ran /\ joinArgs.crossfade_duration < 2 * MinDuration =>
        /\ \A i \in SpliceIndexes : i >= 1 => Splice(i - 1) < Splice(i)
        /\ \A i \in SpliceIndexes :
              /\ (IF i = 0 THEN 0 ELSE Boundary(i - 1)) < Splice(i)
              /\ Splice(i) < Boundary(i)

---------------------------------------------------------------------------
(* Properties of the diversifier. *)

\* every sound of every section popped so far
PoppedSounds == UNION {Range(Sounds(gen.popped[i])) : i \in 1..Len(gen.popped)}

PoppedSizes == [i \in 1..Len(gen.popped) |-> Len(Sounds(gen.popped[i]))]

\* C6: the candidate stream yields every sound of every popped section exactly
\* once and nothing else, whatever the random choices: no fill value, no
\* repeat, nothing foreign, and at its end as many urls as the lists hold.
C6_Complete ==
    /\ \A i \in 1..Len(gen.yielded) :
          /\ gen.yielded[i] # None
          /\ gen.yielded[i] \in PoppedSounds
          /\ \A j \in 1..Len(gen.yielded) : gen.yielded[i] = gen.yielded[j] => i = j
    /\ gen.state = "finished" =>
          /\ Range(gen.yielded) = PoppedSounds
          /\ Len(gen.yielded) = SumSeq(PoppedSizes)

\* C6's case: three sections of 2, 3 and 1 sounds were popped with fanout 3
\* and the stream has ended.
C6_Witness ==
    /\ worker.diversity = 3
    /\ PoppedSizes = <<2, 3, 1>>
    /\ gen.state = "finished"
    /\ Len(gen.yielded) = 6

---------------------------------------------------------------------------
(* Properties of a run. *)

\* the pops that returned a section: <<job, position in the job's pops>>
Pops == {<<k, i>> \in Cells \X (1..Len(catalog)) : i <= Len(jobs[k].gen.popped)}

PoppedBy(k) == Range(jobs[k].gen.popped)

\* the run is over: "Process completed", or the exception was raised again
RunOver == cli.pc \in {"completed", "terminated"}

StoredIn(bank) == {path \in DOMAIN target.files : path[1] = Pad02(bank)}

\* the job's packer has ended and has yielded nothing
EmptyProgram(k) ==
    /\ jobs[k].pk.state = "finished"
    /\ jobs[k].pk.yielded = <<>>

\* C7: in every interleaving of the jobs of one run no section is popped by
\* two jobs or twice by one job, and the pops that return a section are at
\* most as many as the sections enqueued.
C7_PoppedOnce ==
    /\ \A p, q \in Pops :
          jobs[p[1]].gen.popped[p[2]] = jobs[q[1]].gen.popped[q[2]] => p = q
    /\ Cardinality(Pops) + Len(sections) <= Len(catalog)
    /\ \A k \in Cells : PoppedBy(k) \cap Range(sections) = {}

\* C7's case: two jobs have each popped a section of the shared deque.
C7_Witness ==
    \E k1, k2 \in Cells :
        /\ k1 # k2
        /\ jobs[k1].gen.popped # <<>>
        /\ jobs[k2].gen.popped # <<>>

\* C8 as claimed: a job whose accepted sample list is empty runs no assembly,
\* does not attempt to store a file for its cell and ends without an error.
C8_EmptySkipped ==
    \A k \in Cells :
        EmptyProgram(k) =>
            /\ ~jobs[k].program
            /\ jobs[k].pc \notin {"copy", "failed"}
            /\ jobs[k].dst = <<>>
            /\ jobs[k].exc = ""

\* C9 as claimed: the small grid always ends with exactly 2 stored files, one
\* in each bank subdirectory.
C9_TwoFiles ==
    RunOver =>
        /\ Cardinality(DOMAIN target.files) = 2
        /\ Cardinality(StoredIn(0)) = 1
        /\ Cardinality(StoredIn(1)) = 1

\* C9 amended: the small grid ends with 1 or 2 stored files, never two in one
\* bank subdirectory; it ends with 2, one per bank, exactly when each job
\* popped one of the two sections; otherwise the job that found the deque
\* empty has failed with FileNotFoundError and stored nothing.
C9_OneOrTwoFiles ==
    RunOver =>
        /\ Cardinality(DOMAIN target.files) \in {1, 2}
        /\ \A k \in Cells :
              /\ Cardinality(StoredIn(Bank(k))) <= 1
              /\ jobs[k].gen.popped # <<>> <=>
                    /\ futures[k] = "finished"
                    /\ Path(Bank(k), File(k), 0) \in DOMAIN target.files
              /\ jobs[k].gen.popped = <<>> <=>
                    /\ futures[k] = "failed"
                    /\ jobs[k].exc = "FileNotFoundError"
                    /\ StoredIn(Bank(k)) = {}
        /\ Cardinality(DOMAIN target.files) = 2 <=>
              \A k \in Cells : Len(jobs[k].gen.popped) = 1

\* C9's case: the run is over and one job, having popped both sections, left
\* the other without any.
C9_Witness ==
    /\ RunOver
    /\ Cardinality(DOMAIN target.files) = 1
    /\ \E k \in Cells : Len(jobs[k].gen.popped) = 2

C11_FailFast ==
    [][cli.debug =>
          /\ executor.shutdown =>
                \A k \in Cells :
                    /\ futures[k] # "pending"
                    /\ futures'[k] = "running" => futures[k] = "running"
          /\ \A k \in Cells :
                futures[k] = "running" =>
                    \/ futures'[k] = "running"
                    \/ futures'[k] = "finished" /\ jobs'[k].pc = "done"
                    \/ futures'[k] = "failed" /\ jobs'[k].pc = "failed"
          /\ cli.pc # "terminated" /\ cli'.pc = "terminated" =>
                /\ executor.shutdown
                /\ cli.exc # ""
                /\ \A k \in Cells :
                      futures[k] \in {"finished", "failed", "cancelled"}]_vars

\* C11's case: with --debug the pool has been shut down after a failure while
\* one job was queued and another was running.
C11_Witness ==
    /\ cli.debug
    /\ executor.shutdown
    /\ cli.pc = "joining"
    /\ \E k \in Cells : futures[k] = "cancelled"
    /\ \E k \in Cells : futures[k] = "running" /\ jobs[k].pc # "failed"

\* the job k was ended by the download of a candidate raising
DownloadFailed(k) ==
    /\ jobs[k].pk.state = "raised"
    /\ jobs[k].pk.log[Len(jobs[k].pk.log)].outcome = URLError

\* the job k was ended by sox failing on the conversion of an accepted sample
ConvertFailed(k) ==
    /\ jobs[k].pc = "failed"
    /\ jobs[k].exc = "SoxError"
    /\ Len(jobs[k].staging) < Len(jobs[k].pk.yielded)

\* C12 as claimed: a sample whose download fails, or on which sox fails when
\* measuring or converting it, is discarded and the job goes on: no job is
\* ended by such a failure.
C12_SampleFailuresDiscarded ==
    \A k \in Cells :
        /\ ~DownloadFailed(k)
        /\ ~ConvertFailed(k)
        /\ \A i \in 1..Len(jobs[k].pk.log) :
              jobs[k].pk.log[i].outcome \in {URLError, SoxError} =>
                  jobs[k].pk.log[i].verdict = "discarded"

\* the files of the target that job k has stored
StoredBy(k) == {path \in DOMAIN target.files : target.files[path].by = k}

\* C13 as claimed: a job is in copy_file_safely only with its program
\* assembled by a successful sox run, what is stored is the whole program, a
\* failed assembly leaves nothing stored, and the Future is done with success
\* only after the copy.
C13_StoreAfterAssembly ==
    \A k \in Cells :
        /\ jobs[k].pc = "copy" \/ jobs[k].dst # <<>> => jobs[k].program
        /\ \A path \in StoredBy(k) :
              /\ jobs[k].program
              /\ target.files[path].clips = jobs[k].staging
        /\ ~jobs[k].program => StoredBy(k) = {}
        /\ futures[k] = "finished" => StoredBy(k) = {jobs[k].dst}

---------------------------------------------------------------------------
(* Properties of copy_file_safely. *)

\* C14: a store leaves every file that was there unchanged and adds one file,
\* under the first free of name.ext, name-1.ext, name-2.ext, ...: into a
\* directory that holds name.ext, ..., name-(k-1).ext it returns name-k.ext.
C14_NeverOverwrites ==
    [][Len(jobs') = Len(jobs) + 1 =>
          LET call == jobs'[Len(jobs')]
          IN  /\ \A path \in DOMAIN target.files :
                    /\ path \in DOMAIN target'.files
                    /\ target'.files[path] = target.files[path]
              /\ call.dst \notin DOMAIN target.files
              /\ DOMAIN target'.files = DOMAIN target.files \cup {call.dst}
              /\ \A k \in 0..(MaxStored + MaxStores) :
                    /\ \A num \in 0..(k - 1) :
                          Path(0, call.file, num) \in DOMAIN target.files
                    /\ Path(0, call.file, k) \notin DOMAIN target.files
                    => /\ call.dst = Path(0, call.file, k)
                       /\ call.dst[2] = Stem(call.file, 0) \o
                              (IF k = 0 THEN <<>> ELSE <<"-">> \o Str(k))
                       /\ call.dst[3] = ".wav"]_vars

\* C14's case: 00.wav was there; the first store of 00.wav has returned
\* 00-1.wav, the second 00-2.wav, and 00.wav is as it was.
C14_Witness ==
    /\ Len(jobs) >= 2
    /\ jobs[1] = [file |-> 0, dst |-> <<<<"0", "0">>, <<"0", "0", "-", "1">>, ".wav">>]
    /\ jobs[2] = [file |-> 0, dst |-> <<<<"0", "0">>, <<"0", "0", "-", "2">>, ".wav">>]
    /\ target.files[Path(0, 0, 0)] = Existing

---------------------------------------------------------------------------
(* More properties of a run and of the packer. *)

\* C15 as claimed: without a sox executable the run fails at startup: no job
\* starts, no section is popped and no sample is downloaded.
C15_DetectedAtStartup ==
    ~env.which =>
        \A k \in Cells :
            /\ jobs[k].pc = "idle"
            /\ jobs[k].gen.popped = <<>>
            /\ jobs[k].pk.log = <<>>

\* C16: when the measurement of a candidate raises SoxError, the packer keeps
\* its skip counter, its remaining length and what it has yielded, and goes
\* on to the next candidate.
C16_MeasurementFailureFree ==
    [][/\ Len(pk'.log) = Len(pk.log) + 1
       /\ pk'.log[Len(pk'.log)].outcome = SoxError
       => /\ pk'.log[Len(pk'.log)].verdict = "discarded"
          /\ pk'.skips_count = pk.skips_count
          /\ pk'.remaining = pk.remaining
          /\ pk'.yielded = pk.yielded
          /\ pk'.state = "suspended"]_vars

\* C16's case: a candidate was discarded on a SoxError and the next one was
\* measured against the same remaining length and yielded.
C16_Witness ==
    \E i \in 1..(Len(pk.log) - 1) :
        /\ pk.log[i].outcome = SoxError
        /\ pk.log[i + 1].verdict = "yielded"
        /\ pk.log[i + 1].remaining = pk.log[i].remaining
        /\ pk.log[i].remaining < packArgs.duration

---------------------------------------------------------------------------
(* The order of the candidate stream. *)

\* the position of the sound `url` in the shuffled list of its section
Position(url) ==
    CHOOSE r \in 1..MaxSounds :
        \E k \in 1..Len(gen.lists) :
            r <= Len(gen.lists[k]) /\ gen.lists[k][r] = url

\* the first sound of each popped section that has any
Firsts == {gen.lists[k][1] : k \in {h \in 1..Len(gen.lists) : gen.lists[h] # <<>>}}

\* C17: the stream yields the sounds by position in their shuffled lists: all
\* of position r before any of position r + 1; the first round is one sound of
\* each non-empty popped section, so no section's later sound comes before
\* the first sound of every one of them.
C17_RoundRobin ==
    LET firsts == Firsts
    IN  /\ \A i \in 1..(Len(gen.yielded) - 1) :
              Position(gen.yielded[i]) <= Position(gen.yielded[i + 1])
        /\ \A i \in 1..Len(gen.yielded) :
              IF i <= Cardinality(firsts)
              THEN /\ gen.yielded[i] \in firsts
                   /\ \A h \in 1..(i - 1) : gen.yielded[h] # gen.yielded[i]
              ELSE gen.yielded[i] \notin firsts
        /\ gen.round >= 1 /\ gen.pending = <<>> =>
              Len(gen.yielded) >= Cardinality(firsts)

\* C17's case: sections of 3, 1 and 2 sounds were popped and the stream has
\* ended: three sounds of the first round, two of the second, one of the third.
C17_Witness ==
    /\ PoppedSizes = <<3, 1, 2>>
    /\ gen.state = "finished"
    /\ Position(gen.yielded[3]) = 1
    /\ Position(gen.yielded[4]) = 2
    /\ Position(gen.yielded[6]) = 3

---------------------------------------------------------------------------
(* The filling of the deque of sections. *)

IsSuffix(s, t) == \E n \in 0..Len(t) : s = SubSeq(t, n + 1, Len(t))

\* every section of the catalog is in the deque or was popped by a job
Enqueued ==
    Range(sections) \cup UNION {PoppedBy(k) : k \in Cells} = 1..Len(catalog)

\* C18: the deque is filled once, by the main thread at the start of
\* Worker.start, before the first job is submitted; a job exists only with
\* the deque filled, and afterwards the deque only loses sections.
C18_EnqueuedFirst ==
    [][/\ ~IsSuffix(sections', sections) =>
             /\ cli.pc = "start" /\ cli'.pc # "start"
             /\ sections = <<>>
             /\ \A k \in Cells : futures[k] = "unsubmitted" /\ jobs[k].pc = "idle"
             /\ jobs' = jobs /\ futures' = futures
       /\ (\E k \in Cells : futures'[k] # "unsubmitted") =>
             /\ cli.pc # "start"
             /\ Enqueued
       /\ cli.pc # "start" => cli'.pc # "start" /\ IsSuffix(sections', sections)]_vars

\* C18's case: the deque was filled, the main thread is still submitting and a
\* job submitted earlier has already popped a section.
C18_Witness ==
    /\ cli.pc = "submit"
    /\ \E k \in Cells : futures[k] = "unsubmitted"
    /\ \E k \in Cells : jobs[k].gen.popped # <<>>
    /\ sections # <<>>

\* Catalog.sounds has raised for the last section the job k has popped
SoundsFailed(k) == Len(jobs[k].gen.popped) > Len(jobs[k].gen.lists)

\* C19 as claimed: without --debug, a section whose list of sounds cannot be
\* fetched counts as an empty list: the job does not fail and its stream of
\* candidates goes on with the other popped sections.
C19_SectionFailureConfined ==
    ~cli.debug =>
        \A k \in Cells :
            SoundsFailed(k) =>
                /\ jobs[k].pc # "failed"
                /\ jobs[k].exc = ""
                /\ jobs[k].gen.state # "raised"

---------------------------------------------------------------------------
(* Stores of concurrent jobs. *)

\* C20: whatever the target holds at first and however the jobs interleave,
\* no two jobs pick the same destination path, and no step changes or removes
\* a file of the target: neither one that was there before the run nor one
\* that another job has stored.
C20_NoStoreCollision ==
    [][/\ \A path \in DOMAIN target.files :
             /\ path \in DOMAIN target'.files
             /\ target'.files[path] = target.files[path]
       /\ \A k1, k2 \in Cells :
             /\ k1 # k2
             /\ jobs'[k1].dst # <<>>
             => jobs'[k1].dst # jobs'[k2].dst]_vars

\* C20's case: 00/00.wav was there; two jobs of bank 00, each with its
\* program assembled, are both between the choice of the name and the copy.
C20_Witness ==
    /\ Path(0, 0, 0) \in DOMAIN target.files
    /\ worker.banks = 1
    /\ \A k \in Cells : jobs[k].pc = "copy" /\ jobs[k].program
    /\ jobs[1].dst = Path(0, 0, 1)
    /\ jobs[2].dst = Path(0, 1, 0)

---------------------------------------------------------------------------
(* The files of a job's temporary directories. *)

\* C21: a job downloads a candidate only when every sample it has accepted is
\* converted; the staging file of the i-th accepted sample holds that sample,
\* converted, and stays as it is, whatever is downloaded later under the same
\* file name; and the staging paths of a job are pairwise different.
C21_ConvertedBeforeNext ==
    [][\A k \in Cells :
          /\ Len(jobs'[k].pk.log) > Len(jobs[k].pk.log) =>
                Len(jobs[k].staging) = Len(jobs[k].pk.yielded)
          /\ \A i \in 1..Len(jobs[k].staging) :
                /\ jobs[k].staging[i].input = jobs[k].pk.yielded[i]
                /\ jobs'[k].staging[i] = jobs[k].staging[i]
          /\ \A i, j \in 1..Len(jobs'[k].staging) :
                i # j => jobs'[k].staging[i].path # jobs'[k].staging[j].path]_vars

\* C21's case: a job has accepted and converted two samples of the same file
\* name; the file in its tmpdir now holds the second.
C21_Witness ==
    \E k \in Cells :
        /\ Len(jobs[k].staging) = 2
        /\ Name(jobs[k].pk.yielded[1]) = Name(jobs[k].pk.yielded[2])
        /\ jobs[k].staging[1].input = jobs[k].pk.yielded[1]
        /\ jobs[k].tmpdir[Name(jobs[k].pk.yielded[1])] = jobs[k].pk.yielded[2]
        /\ jobs[k].pk.yielded[1] # jobs[k].pk.yielded[2]

===========================================================================
